---- MODULE Spec2Model ----
(***************************************************************************)
(* Model of Pal::Gfx9::PipelineChunkHs (gfx9PipelineChunkHs.cpp): the      *)
(* hull-shader pipeline chunk.  LateInit builds the register snapshot      *)
(* m_regs from the pipeline binary; WriteShCommands and                    *)
(* WriteContextCommands replay it into caller-owned command streams.       *)
(*                                                                         *)
(* Registers are modelled by their bit-fields: a plain register is         *)
(* [u32All], SPI_SHADER_PGM_RSRC3_HS is [CU_EN, WAVE_LIMIT, OTHER_BITS]    *)
(* and SPI_SHADER_PGM_RSRC4_HS is [CU_EN, OTHER_BITS], where OTHER_BITS    *)
(* is all bits of the register outside the named fields.  A 64-bit GPU     *)
(* address is [hi, lo], its two 32-bit halves.                             *)
(***************************************************************************)
EXTENDS Integers, Sequences, FiniteSets, TLC

\* ---------------------------------------------------------------- bounds
\* Number of threads (callers) that record command buffers.
NumThreads == 2
\* Major versions of the blobs and instances range over 0..MaxMajor.
MaxMajor == 3

\* ---------------------------------------------------- program constants
\* Width of the WAVE_LIMIT bit-field of SPI_SHADER_PGM_RSRC3_HS.
WAVE_LIMIT_BITS == 6
\* Width of the CU_EN bit-fields of SPI_SHADER_PGM_RSRC3_HS / RSRC4_HS.
CU_EN_BITS == 16
\* Required alignment of the shader entry point.
PgmAlignment == 256
\* The registers offset handed out when the blob has no registers entry:
\* 0xffffffff, which as a 32-bit integer is -1.
InvalidRegistersOffset == -1

Threads == 1..NumThreads

\* ------------------------------------------------------ integer helpers
RECURSIVE BitAnd(_, _)
BitAnd(a, b) ==
    IF a = 0 \/ b = 0 THEN 0
    ELSE (a % 2) * (b % 2) + 2 * BitAnd(a \div 2, b \div 2)

\* Assignment of an integer to a bit-field of the given width.
Truncate(v, bits) == v % (2 ^ bits)

IsPow2Aligned(addr, alignment) == addr.lo % alignment = 0
Get256BAddrLo(addr) == (addr.lo \div 256) + (addr.hi % 256) * (2 ^ 24)
Get256BAddrHi(addr) == addr.hi \div 256
LowPart(addr) == addr.lo

IsGfx9(gfxLevel) == gfxLevel = "GfxIp9"
IsGfx10Plus(gfxLevel) == gfxLevel \in {"GfxIp10_1", "GfxIp10_3"}

\* Device::AdjustCuEnHi: the upper half of the 32-bit CU mask masks CU_EN of RSRC4.
AdjustCuEnHi(val, mask) == BitAnd(val, mask \div (2 ^ CU_EN_BITS)) % (2 ^ CU_EN_BITS)

\* ------------------------------------------------------------- inputs
GfxLevels == {"GfxIp9", "GfxIp10_1", "GfxIp10_3"}

\* m_pHsPerfDataInfo
PerfDataNotMapped == [regOffset |-> "UserDataNotMapped", gpuVirtAddr |-> 0]
PerfDataMapped == [regOffset |-> "mmSPI_SHADER_USER_DATA_HS_6", gpuVirtAddr |-> 4096]

\* Data already fed to the MetroHash64 accumulator by earlier chunks.
PriorHashes == { <<>>, << [vgtHosMaxTessLevel |-> [u32All |-> 9],
                          vgtHosMinTessLevel |-> [u32All |-> 9]] >> }

\* What a chunk is constructed with: the device (chipProps and the Device
\* queries GetCuEnableMask(0, UINT_MAX), GetCuEnableMaskHi(0, UINT_MAX),
\* GetMaxWavesPerSh(chipProps, false)), the perf-data info and the hasher of
\* the pipeline.  One construction for each combination of Gfx10+, checksum
\* support and perf-data mapping; the other values alternate over them.
Constructions ==
    { [device |-> [gfxLevel |-> IF ~g10 THEN "GfxIp9"
                                ELSE IF s = 1 THEN "GfxIp10_1" ELSE "GfxIp10_3",
                   supportSpp |-> s,
                   cuEnableMask |-> IF p THEN 65535 ELSE 255,
                   cuEnableMaskHi |-> IF p THEN 3 ELSE 0,
                   maxWavesPerSh |-> IF s = 1 THEN 40 ELSE 32],
       perfData |-> IF p THEN PerfDataMapped ELSE PerfDataNotMapped,
       hasher |-> IF (s = 1) = g10 THEN << >>
                  ELSE << [vgtHosMaxTessLevel |-> [u32All |-> 9],
                           vgtHosMinTessLevel |-> [u32All |-> 9]] >>] :
         g10 \in BOOLEAN, s \in {0, 1}, p \in BOOLEAN }

\* Compile-time configuration of the build.
Builds ==
    { [PAL_AMDGPU_BUILD |-> a, PAL_ENABLE_PRINTS_ASSERTS |-> d] :
         a \in BOOLEAN, d \in BOOLEAN }

\* RegisterVector contents: RSRC1, RSRC2 and the tess levels are always
\* present (read with At), RSRC3 and CHKSUM are optional (read with HasEntry).
Rsrc3Entries ==
    { [has |-> FALSE, val |-> [CU_EN |-> 0, WAVE_LIMIT |-> 0, OTHER_BITS |-> 0]],
      [has |-> TRUE,  val |-> [CU_EN |-> 240, WAVE_LIMIT |-> 0, OTHER_BITS |-> 1]],
      [has |-> TRUE,  val |-> [CU_EN |-> 240, WAVE_LIMIT |-> 5, OTHER_BITS |-> 1]] }

RegisterVectors ==
    { [rsrc1 |-> 11, rsrc2 |-> 22, rsrc3 |-> r, chksum |-> k.chksum,
       minTess |-> k.minTess, maxTess |-> k.maxTess] :
         r \in Rsrc3Entries,
         k \in { [chksum |-> [has |-> FALSE, val |-> [u32All |-> 0]], minTess |-> 1, maxTess |-> 64],
                 [chksum |-> [has |-> TRUE, val |-> [u32All |-> 77]], minTess |-> 2, maxTess |-> 16] } }

NotFound == [found |-> FALSE, gpuVirtAddr |-> [hi |-> 0, lo |-> 0], size |-> 0]

\* Results of PipelineUploader::GetPipelineGpuSymbol and AbiReader::GetPipelineSymbol.
Uploaders ==
    { [hsMainEntry |-> NotFound,
       hsIntrlTbl  |-> [found |-> TRUE, gpuVirtAddr |-> [hi |-> 0, lo |-> 8192], size |-> 64],
       hsDisassembly |-> [found |-> FALSE, st_size |-> 0]],
      [hsMainEntry |-> [found |-> TRUE, gpuVirtAddr |-> [hi |-> 1, lo |-> 4608], size |-> 256],
       hsIntrlTbl  |-> [found |-> TRUE, gpuVirtAddr |-> [hi |-> 1, lo |-> 8192], size |-> 64],
       hsDisassembly |-> [found |-> TRUE, st_size |-> 96]],
      \* entry point not aligned to 256 bytes
      [hsMainEntry |-> [found |-> TRUE, gpuVirtAddr |-> [hi |-> 0, lo |-> 4736], size |-> 256],
       hsIntrlTbl  |-> NotFound,
       hsDisassembly |-> [found |-> FALSE, st_size |-> 0]],
      \* entry point above the 40-bit range of the 256-byte-aligned address
      [hsMainEntry |-> [found |-> TRUE, gpuVirtAddr |-> [hi |-> 256, lo |-> 4608], size |-> 256],
       hsIntrlTbl  |-> [found |-> TRUE, gpuVirtAddr |-> [hi |-> 0, lo |-> 8192], size |-> 64],
       hsDisassembly |-> [found |-> TRUE, st_size |-> 96]] }

\* DynamicStageInfo values passed to WriteShCommands (wavesPerSh, cuEnableMask).
StageInfos ==
    { [wavesPerSh |-> 0,  cuEnableMask |-> 0],
      [wavesPerSh |-> 5,  cuEnableMask |-> 0],
      [wavesPerSh |-> 0,  cuEnableMask |-> 65551],
      [wavesPerSh |-> 64, cuEnableMask |-> 131312] }

NoStageInfo == [wavesPerSh |-> 0, cuEnableMask |-> 0]

\* ------------------------------------------------------- metadata codec
\* The code-object metadata blob is a sequence of tokens, one per byte offset:
\* [k |-> "map", v |-> number of pairs], [k |-> "array", v |-> number of
\* elements], [k |-> "uint", v |-> value], [k |-> "str", v |-> string].
Tok(k, v) == [k |-> k, v |-> v]

\* PalCodeObjectMetadataKey and PipelineMetadataKey.
VersionKey == "amdpal.version"
PipelinesKey == "amdpal.pipelines"
ShaderFunctionsKey == ".shader_functions"
RegistersKey == ".registers"
UserDataLimitKey == ".user_data_limit"
SpillThresholdKey == ".spill_threshold"

\* A zero-initialised PalCodeObjectMetadata: every presence bit clear, every
\* field at its default.
EmptyPipelineMetadata ==
    [shaderFunctions |-> 0, registers |-> 0, userDataLimit |-> 0,
     spillThreshold |-> 0,
     hasEntry |-> [shaderFunctions |-> FALSE, registers |-> FALSE,
                   userDataLimit |-> FALSE, spillThreshold |-> FALSE]]

EmptyMetadata ==
    [version |-> << 0, 0 >>, pipeline |-> EmptyPipelineMetadata,
     hasEntry |-> [version |-> FALSE]]

\* MsgPackReader::Skip: the position after the element that starts at pos,
\* 0 when the element runs past the end of the buffer.
RECURSIVE Skip(_, _)
RECURSIVE SkipN(_, _, _)
Skip(buf, pos) ==
    IF pos > Len(buf) THEN 0
    ELSE IF buf[pos].k = "map" THEN SkipN(buf, pos + 1, 2 * buf[pos].v)
    ELSE IF buf[pos].k = "array" THEN SkipN(buf, pos + 1, buf[pos].v)
    ELSE pos + 1

SkipN(buf, pos, n) ==
    IF n = 0 THEN pos
    ELSE LET next == Skip(buf, pos)
         IN  IF next = 0 THEN 0 ELSE SkipN(buf, next, n - 1)

\* Variant: the offset recorded is the one after the sub-structure's header.
LazyReferencePastHeader(md, field, val, valPos) ==
    IF val.k # "map" THEN [res |-> "TypeMismatch", md |-> md]
    ELSE [res |-> "Success",
          md |-> [md EXCEPT !.pipeline[field] = valPos,
                            !.pipeline.hasEntry[field] = TRUE]]

\* A lazy reference: the byte offset of the sub-structure, which is not parsed.
LazyReference(md, field, val, valPos) ==
    IF val.k # "map" THEN [res |-> "TypeMismatch", md |-> md]
    ELSE [res |-> "Success",
          md |-> [md EXCEPT !.pipeline[field] = valPos - 1,
                            !.pipeline.hasEntry[field] = TRUE]]

UintField(md, field, val) ==
    IF val.k # "uint" THEN [res |-> "TypeMismatch", md |-> md]
    ELSE [res |-> "Success",
          md |-> [md EXCEPT !.pipeline[field] = val.v,
                            !.pipeline.hasEntry[field] = TRUE]]

\* One entry of the pipeline map; a key the decoder does not know is skipped.
PipelineField(key, val, valPos, md) ==
    IF key = ShaderFunctionsKey THEN LazyReference(md, "shaderFunctions", val, valPos)
    ELSE IF key = RegistersKey THEN LazyReference(md, "registers", val, valPos)
    ELSE IF key = UserDataLimitKey THEN UintField(md, "userDataLimit", val)
    ELSE IF key = SpillThresholdKey THEN UintField(md, "spillThreshold", val)
    ELSE [res |-> "Success", md |-> md]

\* The n entries of the pipeline map that start at pos.
RECURSIVE PipelineEntries(_, _, _, _)
PipelineEntries(buf, pos, n, md) ==
    IF n = 0 THEN [res |-> "Success", pos |-> pos, md |-> md]
    ELSE IF pos > Len(buf) THEN [res |-> "Truncated", pos |-> pos, md |-> md]
    ELSE IF buf[pos].k # "str" THEN [res |-> "MalformedStructure", pos |-> pos, md |-> md]
    ELSE IF pos + 1 > Len(buf) THEN [res |-> "Truncated", pos |-> pos, md |-> md]
    ELSE LET field == PipelineField(buf[pos].v, buf[pos + 1], pos + 1, md)
             next  == Skip(buf, pos + 1)
         IN  IF field.res # "Success"
             THEN [res |-> field.res, pos |-> pos, md |-> field.md]
             ELSE IF next = 0
             THEN [res |-> "Truncated", pos |-> pos, md |-> field.md]
             ELSE PipelineEntries(buf, next, n - 1, field.md)

\* The value of the version key at pos: an array of two unsigned integers.
VersionEntry(buf, pos, md) ==
    IF buf[pos].k # "array" THEN [res |-> "TypeMismatch", md |-> md]
    ELSE IF buf[pos].v # 2 THEN [res |-> "MalformedStructure", md |-> md]
    ELSE IF pos + 2 > Len(buf) THEN [res |-> "Truncated", md |-> md]
    ELSE IF buf[pos + 1].k # "uint" \/ buf[pos + 2].k # "uint"
    THEN [res |-> "TypeMismatch", md |-> md]
    ELSE [res |-> "Success",
          md |-> [md EXCEPT !.version = << buf[pos + 1].v, buf[pos + 2].v >>,
                            !.hasEntry.version = TRUE]]

\* The value of the pipelines key at pos: an array of one pipeline map.
PipelinesEntry(buf, pos, md) ==
    IF buf[pos].k # "array" THEN [res |-> "TypeMismatch", md |-> md]
    ELSE IF buf[pos].v # 1 THEN [res |-> "MalformedStructure", md |-> md]
    ELSE IF pos + 1 > Len(buf) THEN [res |-> "Truncated", md |-> md]
    ELSE IF buf[pos + 1].k # "map" THEN [res |-> "TypeMismatch", md |-> md]
    ELSE LET p == PipelineEntries(buf, pos + 2, buf[pos + 1].v, md)
         IN  [res |-> p.res, md |-> p.md]

\* The n entries of the root map that start at pos; pipelines tells whether
\* the pipelines key was met.
RECURSIVE RootEntries(_, _, _, _, _)
RootEntries(buf, pos, n, md, pipelines) ==
    IF n = 0 THEN [res |-> "Success", md |-> md, pipelines |-> pipelines]
    ELSE IF pos > Len(buf) THEN [res |-> "Truncated", md |-> md, pipelines |-> pipelines]
    ELSE IF buf[pos].k # "str"
    THEN [res |-> "MalformedStructure", md |-> md, pipelines |-> pipelines]
    ELSE IF pos + 1 > Len(buf)
    THEN [res |-> "Truncated", md |-> md, pipelines |-> pipelines]
    ELSE LET key   == buf[pos].v
             entry == IF key = VersionKey THEN VersionEntry(buf, pos + 1, md)
                      ELSE IF key = PipelinesKey THEN PipelinesEntry(buf, pos + 1, md)
                      ELSE [res |-> "Success", md |-> md]
             next  == Skip(buf, pos + 1)
         IN  IF entry.res # "Success"
             THEN [res |-> entry.res, md |-> entry.md, pipelines |-> pipelines]
             ELSE IF next = 0
             THEN [res |-> "Truncated", md |-> entry.md, pipelines |-> pipelines]
             ELSE RootEntries(buf, next, n - 1, entry.md,
                              pipelines \/ key = PipelinesKey)

\* Variant: no version gate.
VersionGateOpen(root, major) ==
    IF root.res # "Success" THEN root.res
    ELSE IF ~root.md.hasEntry.version \/ ~root.pipelines THEN "MalformedStructure"
    ELSE "Success"

\* The result of a decode whose root map was read: both root keys are
\* required, and a major version above the supported one is rejected.
VersionGate(root, major) ==
    IF root.res # "Success" THEN root.res
    ELSE IF ~root.md.hasEntry.version \/ ~root.pipelines THEN "MalformedStructure"
    ELSE IF root.md.version[1] > major THEN "VersionUnsupported"
    ELSE "Success"

\* Decode(buffer) by a decoder that supports the given major version.
Decode(buf, major) ==
    IF Len(buf) = 0 THEN [res |-> "Truncated", md |-> EmptyMetadata]
    ELSE IF buf[1].k # "map" THEN [res |-> "MalformedStructure", md |-> EmptyMetadata]
    ELSE LET root == RootEntries(buf, 2, buf[1].v, EmptyMetadata, FALSE)
         IN  [res |-> VersionGate(root, major), md |-> root.md]

\* Encode(m): the root map with the present root entries; the pipeline map
\* carries only the fields whose presence bit is set, in declaration order.
\* A lazily referenced sub-structure is not held by the struct: its key is
\* emitted with an empty map.
EncodeLazy(md, field, key) ==
    IF md.pipeline.hasEntry[field] THEN << Tok("str", key), Tok("map", 0) >> ELSE << >>

EncodeUint(md, field, key) ==
    IF md.pipeline.hasEntry[field]
    THEN << Tok("str", key), Tok("uint", md.pipeline[field]) >>
    ELSE << >>

\* Variant: every field is emitted, present or not.
EncodePipelineAllFields(md) ==
    LET fields == << Tok("str", ShaderFunctionsKey), Tok("map", 0),
                     Tok("str", RegistersKey), Tok("map", 0),
                     Tok("str", UserDataLimitKey), Tok("uint", md.pipeline.userDataLimit),
                     Tok("str", SpillThresholdKey), Tok("uint", md.pipeline.spillThreshold) >>
    IN  << Tok("map", Len(fields) \div 2) >> \o fields

EncodePipeline(md) ==
    LET fields == EncodeLazy(md, "shaderFunctions", ShaderFunctionsKey)
                  \o EncodeLazy(md, "registers", RegistersKey)
                  \o EncodeUint(md, "userDataLimit", UserDataLimitKey)
                  \o EncodeUint(md, "spillThreshold", SpillThresholdKey)
    IN  << Tok("map", Len(fields) \div 2) >> \o fields

Encode(md) ==
    LET version == IF md.hasEntry.version
                   THEN << Tok("str", VersionKey), Tok("array", 2),
                           Tok("uint", md.version[1]), Tok("uint", md.version[2]) >>
                   ELSE << >>
        pipelines == << Tok("str", PipelinesKey), Tok("array", 1) >>
                     \o EncodePipeline(md)
    IN  << Tok("map", (IF md.hasEntry.version THEN 1 ELSE 0) + 1) >>
        \o version \o pipelines

\* Variant: the offset field is handed out whatever its presence bit.
PublishRegistersOffsetIgnoringPresence(res, md, want, old) ==
    IF res = "Success" /\ want
    THEN [written |-> TRUE, val |-> md.pipeline.registers]
    ELSE old

\* Variant: the offset is handed out whatever the result.
PublishRegistersOffsetOnFailure(res, md, want, old) ==
    IF want
    THEN [written |-> TRUE,
          val |-> IF md.pipeline.hasEntry.registers
                  THEN md.pipeline.registers
                  ELSE InvalidRegistersOffset]
    ELSE old

\* *pRegistersOffset after the overload that takes pRegistersOffset; want is
\* pRegistersOffset != nullptr.
PublishRegistersOffset(res, md, want, old) ==
    IF res = "Success" /\ want
    THEN [written |-> TRUE,
          val |-> IF md.pipeline.hasEntry.registers
                  THEN md.pipeline.registers
                  ELSE InvalidRegistersOffset]
    ELSE old

\* ------------------------------------------------------------ codec inputs
SupportedMajors == {1, 2}
Versions == { << major, minor >> : major \in 0..MaxMajor, minor \in {0, 7} }

\* Keys no decoder of this version knows.
FutureRootKey == "amdpal.future"
FutureKey == ".future_key"
FutureNestedKey == ".future_nested"

\* The keys of the pipeline map of a blob, in blob order.
PipelineKeyLists ==
    { << >>,
      << RegistersKey >>,
      << UserDataLimitKey, RegistersKey >>,
      << FutureKey, ShaderFunctionsKey, SpillThresholdKey >>,
      << UserDataLimitKey, FutureNestedKey, ShaderFunctionsKey >>,
      << UserDataLimitKey, SpillThresholdKey, FutureKey >> }

Defects == {"none", "type", "cut1", "cut2"}

\* How a producer laid a blob out.
BlobDescriptions ==
    [version : Versions, hasVersion : BOOLEAN, hasPipelines : BOOLEAN,
     futureRoot : BOOLEAN, pipe : PipelineKeyLists, defect : Defects]

\* The value a producer writes for a pipeline key.
ValueOf(key, defect) ==
    IF key = FutureKey THEN << Tok("uint", 9) >>
    ELSE IF key = FutureNestedKey
    THEN << Tok("map", 1), Tok("str", RegistersKey), Tok("map", 0) >>
    ELSE IF defect = "type" THEN << Tok("str", "bad") >>
    ELSE IF key = RegistersKey
    THEN << Tok("map", 1), Tok("uint", 11275), Tok("uint", 3) >>
    ELSE IF key = ShaderFunctionsKey THEN << Tok("map", 0) >>
    ELSE IF key = UserDataLimitKey THEN << Tok("uint", 16) >>
    ELSE << Tok("uint", 5) >>

RECURSIVE PipeTokens(_, _)
PipeTokens(keys, defect) ==
    IF keys = << >> THEN << >>
    ELSE << Tok("str", Head(keys)) >> \o ValueOf(Head(keys), defect)
         \o PipeTokens(Tail(keys), defect)

CutOf(defect) == IF defect = "cut1" THEN 1 ELSE IF defect = "cut2" THEN 2 ELSE 0

\* The blob of a description.
Build(desc) ==
    LET future == IF desc.futureRoot
                  THEN << Tok("str", FutureRootKey), Tok("map", 1),
                          Tok("str", VersionKey), Tok("uint", 99) >>
                  ELSE << >>
        version == IF ~desc.hasVersion THEN << >>
                   ELSE IF desc.defect = "type"
                   THEN << Tok("str", VersionKey), Tok("uint", desc.version[1]) >>
                   ELSE << Tok("str", VersionKey), Tok("array", 2),
                           Tok("uint", desc.version[1]), Tok("uint", desc.version[2]) >>
        pipelines == IF ~desc.hasPipelines THEN << >>
                     ELSE << Tok("str", PipelinesKey), Tok("array", 1),
                             Tok("map", Len(desc.pipe)) >>
                          \o PipeTokens(desc.pipe, desc.defect)
        entries == (IF desc.futureRoot THEN 1 ELSE 0)
                   + (IF desc.hasVersion THEN 1 ELSE 0)
                   + (IF desc.hasPipelines THEN 1 ELSE 0)
        whole == << Tok("map", entries) >> \o future \o version \o pipelines
    IN  SubSeq(whole, 1, Len(whole) - CutOf(desc.defect))

\* A blob a conforming producer wrote: both required root keys, every value of
\* its wire type, nothing cut off.
WellFormed(desc) ==
    desc.hasVersion /\ desc.hasPipelines /\ desc.defect = "none"

\* The metadata instances a producer can build from the known fields.
PipelineInstances ==
    { [shaderFunctions |-> IF sf THEN 5 ELSE 0,
       registers |-> IF rg = -1 THEN 0 ELSE rg,
       userDataLimit |-> IF ud = -1 THEN 0 ELSE ud,
       spillThreshold |-> IF sp THEN 5 ELSE 0,
       hasEntry |-> [shaderFunctions |-> sf, registers |-> rg # -1,
                     userDataLimit |-> ud # -1, spillThreshold |-> sp]] :
      sf \in BOOLEAN, rg \in {-1, 0, 7}, ud \in {-1, 0, 16}, sp \in BOOLEAN }

Instances ==
    { [version |-> IF hv THEN v ELSE << 0, 0 >>, pipeline |-> p,
       hasEntry |-> [version |-> hv]] :
      v \in Versions, p \in PipelineInstances, hv \in BOOLEAN }

\* ---------------------------------------------------------------- state
VARIABLES
    build,        \* compile-time configuration
    device,       \* m_device
    perfData,     \* *m_pHsPerfDataInfo
    state,        \* "Uninitialized", "Ready" or "Asserted"
    m_regs,       \* the register snapshot
    m_stageInfo,  \* the stage descriptor
    registers,    \* the RegisterVector LateInit was given
    uploader,     \* the symbol results LateInit was given
    hasher,       \* the data fed to the MetroHash64, in order
    pc,           \* per thread: position in its current call
    hsStageInfo,  \* per thread: the overrides of its current WriteShCommands
    dynamic,      \* per thread: the call-local copy of m_regs.dynamic
    stream,       \* per thread: the register writes of its current call
    supportedMajor,   \* codec: the major version the decoder supports
    blob,             \* codec: how the buffer was produced
    buffer,           \* codec: the metadata blob, a sequence of tokens
    codecPc,          \* codec: "instance", "blob" or "decoded"
    result,           \* codec: the Result of the decode
    metadata,         \* codec: *pMetadata
    registersOffset   \* codec: *pRegistersOffset

chunkVars == << build, device, perfData, state, m_regs, m_stageInfo, registers,
                uploader, hasher, pc, hsStageInfo, dynamic, stream >>

codecVars == << supportedMajor, blob, buffer, codecPc, result, metadata,
                registersOffset >>

vars == << chunkVars, codecVars >>

\* No decode is under way.
CodecIdle ==
    /\ supportedMajor = 0
    /\ blob = [origin |-> "none", from |-> << >>]
    /\ buffer = << >>
    /\ codecPc = "idle"
    /\ result = "NotRun"
    /\ metadata = EmptyMetadata
    /\ registersOffset = [written |-> FALSE, val |-> 0]

\* m_regs{} : value-initialised registers.
ZeroDynamic ==
    [spiShaderPgmRsrc3Hs |-> [CU_EN |-> 0, WAVE_LIMIT |-> 0, OTHER_BITS |-> 0],
     spiShaderPgmRsrc4Hs |-> [CU_EN |-> 0, OTHER_BITS |-> 0]]

ZeroRegs ==
    [sh |-> [spiShaderPgmLoLs      |-> [MEM_BASE |-> 0],
             spiShaderPgmRsrc1Hs   |-> [u32All |-> 0],
             spiShaderPgmRsrc2Hs   |-> [u32All |-> 0],
             spiShaderPgmChksumHs  |-> [u32All |-> 0],
             userDataInternalTable |-> [u32All |-> 0]],
     dynamic |-> ZeroDynamic,
     context |-> [vgtHosMaxTessLevel |-> [u32All |-> 0],
                  vgtHosMinTessLevel |-> [u32All |-> 0]]]

\* m_stageInfo{} with stageId set by the constructor.
InitStageInfo == [stageId |-> "Hs", codeLength |-> 0, disassemblyLength |-> 0]

\* The constructor: PipelineChunkHs(device, pPerfDataInfo).
Init ==
    /\ build \in Builds
    /\ \E c \in Constructions :
         /\ device = c.device
         /\ perfData = c.perfData
         /\ hasher = c.hasher
    /\ state = "Uninitialized"
    /\ m_regs = ZeroRegs
    /\ m_stageInfo = InitStageInfo
    /\ registers = CHOOSE r \in RegisterVectors : TRUE
    /\ uploader = CHOOSE u \in Uploaders : TRUE
    /\ pc = [t \in Threads |-> "idle"]
    /\ hsStageInfo = [t \in Threads |-> NoStageInfo]
    /\ dynamic = [t \in Threads |-> ZeroDynamic]
    /\ stream = [t \in Threads |-> <<>>]
    /\ CodecIdle

\* ------------------------------------------------------------- LateInit
\* RegisterVector::At and RegisterVector::HasEntry.
At(entry) == [u32All |-> entry]
HasEntry(entry, out) == IF entry.has THEN entry.val ELSE out

\* Variant: a symbol that is not found counts as a failed assertion.
FailedAssertOnNotFound(up) ==
    IF ~up.hsMainEntry.found THEN 1
    ELSE IF ~IsPow2Aligned(up.hsMainEntry.gpuVirtAddr, PgmAlignment) THEN 1
    ELSE IF Get256BAddrHi(up.hsMainEntry.gpuVirtAddr) # 0 THEN 2
    ELSE 0

\* Number of the first PAL_ASSERT of the entry-point block that does not hold
\* (0: both hold or the entry point was not found).
FailedAssert(up) ==
    IF ~up.hsMainEntry.found THEN 0
    ELSE IF ~IsPow2Aligned(up.hsMainEntry.gpuVirtAddr, PgmAlignment) THEN 1
    ELSE IF Get256BAddrHi(up.hsMainEntry.gpuVirtAddr) # 0 THEN 2
    ELSE 0

\* The entry-point block: code length and program address.
EntryPointStageInfo(si, up) ==
    IF up.hsMainEntry.found
    THEN [si EXCEPT !.codeLength = up.hsMainEntry.size]
    ELSE si

EntryPointRegs(regs, up) ==
    IF up.hsMainEntry.found
    THEN [regs EXCEPT !.sh.spiShaderPgmLoLs.MEM_BASE =
                          Get256BAddrLo(up.hsMainEntry.gpuVirtAddr)]
    ELSE regs

\* The internal-table pointer and the disassembly length.
InternalTableRegs(regs, up) ==
    IF up.hsIntrlTbl.found
    THEN [regs EXCEPT !.sh.userDataInternalTable =
                          [u32All |-> LowPart(up.hsIntrlTbl.gpuVirtAddr)]]
    ELSE regs

DisassemblyStageInfo(si, up) ==
    IF up.hsDisassembly.found
    THEN [si EXCEPT !.disassemblyLength = up.hsDisassembly.st_size]
    ELSE si

\* Variant: RSRC3.CU_EN keeps the value fetched from the pipeline binary.
ShaderRegsBinaryCuEn(regs, dev, regvec) ==
    LET fetched == HasEntry(regvec.rsrc3, regs.dynamic.spiShaderPgmRsrc3Hs)
        r1 == [regs EXCEPT
                 !.sh.spiShaderPgmRsrc1Hs = At(regvec.rsrc1),
                 !.sh.spiShaderPgmRsrc2Hs = At(regvec.rsrc2),
                 !.dynamic.spiShaderPgmRsrc3Hs = fetched]
        r2 == IF IsGfx10Plus(dev.gfxLevel)
              THEN [r1 EXCEPT !.dynamic.spiShaderPgmRsrc4Hs.CU_EN =
                                  Truncate(dev.cuEnableMaskHi, CU_EN_BITS)]
              ELSE r1
    IN  IF dev.supportSpp # 0
        THEN [r2 EXCEPT !.sh.spiShaderPgmChksumHs = HasEntry(regvec.chksum, @)]
        ELSE r2

\* The registers fetched from the pipeline binary and the CU enable masks.
ShaderRegs(regs, dev, regvec) ==
    LET fetched == HasEntry(regvec.rsrc3, regs.dynamic.spiShaderPgmRsrc3Hs)
        r1 == [regs EXCEPT
                 !.sh.spiShaderPgmRsrc1Hs = At(regvec.rsrc1),
                 !.sh.spiShaderPgmRsrc2Hs = At(regvec.rsrc2),
                 !.dynamic.spiShaderPgmRsrc3Hs =
                     [fetched EXCEPT !.CU_EN = Truncate(dev.cuEnableMask, CU_EN_BITS)]]
        r2 == IF IsGfx10Plus(dev.gfxLevel)
              THEN [r1 EXCEPT !.dynamic.spiShaderPgmRsrc4Hs.CU_EN =
                                  Truncate(dev.cuEnableMaskHi, CU_EN_BITS)]
              ELSE r1
    IN  IF dev.supportSpp # 0
        THEN [r2 EXCEPT !.sh.spiShaderPgmChksumHs = HasEntry(regvec.chksum, @)]
        ELSE r2

\* Variant: both context registers read from mmVGT_HOS_MAX_TESS_LEVEL.
ContextRegsBothMax(regs, regvec) ==
    [regs EXCEPT !.context.vgtHosMinTessLevel = At(regvec.maxTess),
                 !.context.vgtHosMaxTessLevel = At(regvec.maxTess)]

ContextRegs(regs, regvec) ==
    [regs EXCEPT !.context.vgtHosMinTessLevel = At(regvec.minTess),
                 !.context.vgtHosMaxTessLevel = At(regvec.maxTess)]

\* Variant: pHasher->Update(m_regs), the whole snapshot.
HashContributionAllRegs(regs) == regs

\* pHasher->Update(m_regs.context): what the call feeds to the hasher.
HashContribution(regs) == regs.context

\* The snapshot and stage descriptor a complete LateInit leaves.
LateInitRegs(regs, dev, regvec, up) ==
    ContextRegs(ShaderRegs(InternalTableRegs(EntryPointRegs(regs, up), up), dev, regvec),
                regvec)

LateInitStageInfo(si, up) == DisassemblyStageInfo(EntryPointStageInfo(si, up), up)

\* LateInit(abiReader, registers, pUploader, pHasher), called once.  In a build
\* with PAL_ENABLE_PRINTS_ASSERTS a PAL_ASSERT that does not hold stops the
\* call at that line; in a build without it PAL_ASSERT compiles to nothing.
LateInitWith(regvecs, ups) ==
    /\ state = "Uninitialized"
    /\ \E regvec \in regvecs, up \in ups :
         /\ registers' = regvec
         /\ uploader' = up
         /\ IF build.PAL_ENABLE_PRINTS_ASSERTS /\ FailedAssert(up) # 0
            THEN /\ state' = "Asserted"
                 /\ m_stageInfo' = EntryPointStageInfo(m_stageInfo, up)
                 /\ m_regs' = IF FailedAssert(up) = 2 THEN EntryPointRegs(m_regs, up)
                              ELSE m_regs
                 /\ hasher' = hasher
            ELSE /\ state' = "Ready"
                 /\ m_stageInfo' = LateInitStageInfo(m_stageInfo, up)
                 /\ m_regs' = LateInitRegs(m_regs, device, regvec, up)
                 /\ hasher' = Append(hasher, HashContribution(m_regs'))
    /\ UNCHANGED << build, device, perfData, pc, hsStageInfo, dynamic, stream >>
    /\ UNCHANGED codecVars

LateInit == LateInitWith(RegisterVectors, Uploaders)

\* ------------------------------------------------------ command streams
\* Registers in address order, as far as sequential writes rely on it.
RegisterOrder ==
    << "mmSPI_SHADER_PGM_RSRC1_HS", "mmSPI_SHADER_PGM_RSRC2_HS",
       "mmVGT_HOS_MAX_TESS_LEVEL", "mmVGT_HOS_MIN_TESS_LEVEL" >>

\* Member order of m_regs.sh and m_regs.context.
ShLayout ==
    << "spiShaderPgmLoLs", "spiShaderPgmRsrc1Hs", "spiShaderPgmRsrc2Hs",
       "spiShaderPgmChksumHs", "userDataInternalTable" >>

ContextLayout == << "vgtHosMaxTessLevel", "vgtHosMinTessLevel" >>

IndexOf(seq, x) == CHOOSE i \in 1..Len(seq) : seq[i] = x

\* CmdStream::WriteSetOneShReg / WriteSetOneShRegIndex: one register write.
WriteSetOneShReg(reg, val) ==
    << [pkt |-> "SET_SH_REG", reg |-> reg, val |-> val] >>

WriteSetOneShRegIndex(reg, val) ==
    << [pkt |-> "SET_SH_REG_INDEX", reg |-> reg, val |-> val] >>

\* CmdStream::WriteSetSeqShRegs / WriteSetSeqContextRegs: the registers
\* startReg..endReg take consecutive dwords starting at member pData.
WriteSetSeqRegs(pkt, startReg, endReg, data, layout, pData) ==
    LET r0 == IndexOf(RegisterOrder, startReg)
        n  == IndexOf(RegisterOrder, endReg) - r0 + 1
        m0 == IndexOf(layout, pData)
    IN  [i \in 1..n |-> [pkt |-> pkt, reg |-> RegisterOrder[r0 + i - 1],
                         val |-> data[layout[m0 + i - 1]]]]

\* Device::GetMaxWavesPerSh(chipProps, false)
GetMaxWavesPerSh(dev) == dev.maxWavesPerSh

\* ------------------------------------------------------ WriteShCommands
\* The writes of the registers that take no override.
ShRegWrites(regs, dev) ==
    WriteSetOneShReg("mmSpiShaderPgmLoLs",
                     [u32All |-> regs.sh.spiShaderPgmLoLs.MEM_BASE])
    \o WriteSetSeqRegs("SET_SH_REG", "mmSPI_SHADER_PGM_RSRC1_HS",
                       "mmSPI_SHADER_PGM_RSRC2_HS", regs.sh, ShLayout,
                       "spiShaderPgmRsrc1Hs")
    \o WriteSetOneShReg("mmSpiShaderUserDataHs0+ConstBufTblStartReg",
                        regs.sh.userDataInternalTable)
    \o (IF dev.supportSpp # 0
        THEN WriteSetOneShReg("mmSPI_SHADER_PGM_CHKSUM_HS", regs.sh.spiShaderPgmChksumHs)
        ELSE << >>)

\* Variant: the override alone, without the Gfx9 fix-up.
ApplyWavesPerShNoFixup(dyn, info, dev, bld) ==
    IF info.wavesPerSh > 0
    THEN [dyn EXCEPT !.spiShaderPgmRsrc3Hs.WAVE_LIMIT =
                         Truncate(info.wavesPerSh, WAVE_LIMIT_BITS)]
    ELSE dyn

\* Variant: the fix-up without the IsGfx9 test.
ApplyWavesPerShAnyGfx(dyn, info, dev, bld) ==
    IF info.wavesPerSh > 0
    THEN [dyn EXCEPT !.spiShaderPgmRsrc3Hs.WAVE_LIMIT =
                         Truncate(info.wavesPerSh, WAVE_LIMIT_BITS)]
    ELSE IF bld.PAL_AMDGPU_BUILD /\ dyn.spiShaderPgmRsrc3Hs.WAVE_LIMIT = 0
    THEN [dyn EXCEPT !.spiShaderPgmRsrc3Hs.WAVE_LIMIT =
                         Truncate(GetMaxWavesPerSh(dev), WAVE_LIMIT_BITS)]
    ELSE dyn

\* Variant: the fix-up tested before the override.
ApplyWavesPerShFixupFirst(dyn, info, dev, bld) ==
    IF /\ bld.PAL_AMDGPU_BUILD
       /\ IsGfx9(dev.gfxLevel)
       /\ dyn.spiShaderPgmRsrc3Hs.WAVE_LIMIT = 0
    THEN [dyn EXCEPT !.spiShaderPgmRsrc3Hs.WAVE_LIMIT =
                         Truncate(GetMaxWavesPerSh(dev), WAVE_LIMIT_BITS)]
    ELSE IF info.wavesPerSh > 0
    THEN [dyn EXCEPT !.spiShaderPgmRsrc3Hs.WAVE_LIMIT =
                         Truncate(info.wavesPerSh, WAVE_LIMIT_BITS)]
    ELSE dyn

\* The wave limit of the call-local copy: override, else the Gfx9 fix-up.
ApplyWavesPerSh(dyn, info, dev, bld) ==
    IF info.wavesPerSh > 0
    THEN [dyn EXCEPT !.spiShaderPgmRsrc3Hs.WAVE_LIMIT =
                         Truncate(info.wavesPerSh, WAVE_LIMIT_BITS)]
    ELSE IF /\ bld.PAL_AMDGPU_BUILD
            /\ IsGfx9(dev.gfxLevel)
            /\ dyn.spiShaderPgmRsrc3Hs.WAVE_LIMIT = 0
    THEN [dyn EXCEPT !.spiShaderPgmRsrc3Hs.WAVE_LIMIT =
                         Truncate(GetMaxWavesPerSh(dev), WAVE_LIMIT_BITS)]
    ELSE dyn

\* Variant: the mask applied to the whole RSRC3 register (u32All &= mask)
\* instead of its CU_EN field.
ApplyCuEnableMaskWholeReg(dyn, info) ==
    IF info.cuEnableMask # 0
    THEN [dyn EXCEPT
            !.spiShaderPgmRsrc3Hs =
                [CU_EN |-> Truncate(BitAnd(@.CU_EN, info.cuEnableMask), CU_EN_BITS),
                 WAVE_LIMIT |-> BitAnd(@.WAVE_LIMIT,
                                       Truncate(info.cuEnableMask \div (2 ^ CU_EN_BITS),
                                                WAVE_LIMIT_BITS)),
                 OTHER_BITS |-> BitAnd(@.OTHER_BITS,
                                       info.cuEnableMask
                                           \div (2 ^ (CU_EN_BITS + WAVE_LIMIT_BITS)))],
            !.spiShaderPgmRsrc4Hs.CU_EN =
                Truncate(AdjustCuEnHi(@, info.cuEnableMask), CU_EN_BITS)]
    ELSE dyn

\* The CU enable masks of the call-local copy.
ApplyCuEnableMask(dyn, info) ==
    IF info.cuEnableMask # 0
    THEN [dyn EXCEPT
            !.spiShaderPgmRsrc3Hs.CU_EN =
                Truncate(BitAnd(@, info.cuEnableMask), CU_EN_BITS),
            !.spiShaderPgmRsrc4Hs.CU_EN =
                Truncate(AdjustCuEnHi(@, info.cuEnableMask), CU_EN_BITS)]
    ELSE dyn

\* Variant: RSRC4 written before RSRC3.
DynamicRegWritesRsrc4First(dyn, dev) ==
    (IF IsGfx10Plus(dev.gfxLevel)
     THEN WriteSetOneShRegIndex("mmSPI_SHADER_PGM_RSRC4_HS", dyn.spiShaderPgmRsrc4Hs)
     ELSE << >>)
    \o WriteSetOneShRegIndex("mmSPI_SHADER_PGM_RSRC3_HS", dyn.spiShaderPgmRsrc3Hs)

\* Variant: RSRC4 written once a CU mask override patched the local copy.
DynamicRegWritesRsrc4OnOverride(dyn, dev) ==
    WriteSetOneShRegIndex("mmSPI_SHADER_PGM_RSRC3_HS", dyn.spiShaderPgmRsrc3Hs)
    \o (IF IsGfx10Plus(dev.gfxLevel) \/ dyn.spiShaderPgmRsrc3Hs.CU_EN < dev.cuEnableMask
        THEN WriteSetOneShRegIndex("mmSPI_SHADER_PGM_RSRC4_HS", dyn.spiShaderPgmRsrc4Hs)
        ELSE << >>)

\* The writes of the override-bearing registers, from the call-local copy.
DynamicRegWrites(dyn, dev) ==
    WriteSetOneShRegIndex("mmSPI_SHADER_PGM_RSRC3_HS", dyn.spiShaderPgmRsrc3Hs)
    \o (IF IsGfx10Plus(dev.gfxLevel)
        THEN WriteSetOneShRegIndex("mmSPI_SHADER_PGM_RSRC4_HS", dyn.spiShaderPgmRsrc4Hs)
        ELSE << >>)

PerfDataWrites(perf) ==
    IF perf.regOffset # "UserDataNotMapped"
    THEN WriteSetOneShReg(perf.regOffset, [u32All |-> perf.gpuVirtAddr])
    ELSE << >>

\* Variant: `auto& dynamic = m_regs.dynamic`, the patches reach the snapshot.
SnapshotAfterPatchByRef(regs, dyn) == [regs EXCEPT !.dynamic = dyn]

\* `auto dynamic = m_regs.dynamic` in a const method: the patched registers
\* are a copy, the snapshot keeps its value.
SnapshotAfterPatch(regs, dyn) == regs

\* Everything one WriteShCommands call appends to its command stream.
ShCommands(regs, info, dev, bld, perf) ==
    ShRegWrites(regs, dev)
    \o DynamicRegWrites(ApplyCuEnableMask(ApplyWavesPerSh(regs.dynamic, info, dev, bld),
                                          info), dev)
    \o PerfDataWrites(perf)

\* WriteShCommands(pCmdStream, pCmdSpace, hsStageInfo) as one call.
WriteShCommands(t) ==
    /\ state = "Ready"
    /\ pc[t] \in {"idle", "shDone", "ctxDone"}
    /\ \E info \in StageInfos :
         LET dyn == ApplyCuEnableMask(
                        ApplyWavesPerSh(m_regs.dynamic, info, device, build), info)
         IN  /\ hsStageInfo' = [hsStageInfo EXCEPT ![t] = info]
             /\ dynamic' = [dynamic EXCEPT ![t] = dyn]
             /\ stream' = [stream EXCEPT ![t] =
                               ShRegWrites(m_regs, device)
                               \o DynamicRegWrites(dyn, device)
                               \o PerfDataWrites(perfData)]
             /\ m_regs' = SnapshotAfterPatch(m_regs, dyn)
    /\ pc' = [pc EXCEPT ![t] = "shDone"]
    /\ UNCHANGED << build, device, perfData, state, m_stageInfo, registers,
                    uploader, hasher >>
    /\ UNCHANGED codecVars

\* ------------------------------------------------- WriteContextCommands
ContextCommands(regs) ==
    WriteSetSeqRegs("SET_CONTEXT_REG", "mmVGT_HOS_MAX_TESS_LEVEL",
                    "mmVGT_HOS_MIN_TESS_LEVEL", regs.context, ContextLayout,
                    "vgtHosMaxTessLevel")

\* WriteContextCommands(pCmdStream, pCmdSpace) as one call.
WriteContextCommands(t) ==
    /\ state = "Ready"
    /\ pc[t] \in {"idle", "shDone", "ctxDone"}
    /\ stream' = [stream EXCEPT ![t] = ContextCommands(m_regs)]
    /\ pc' = [pc EXCEPT ![t] = "ctxDone"]
    /\ hsStageInfo' = [hsStageInfo EXCEPT ![t] = NoStageInfo]
    /\ dynamic' = [dynamic EXCEPT ![t] = ZeroDynamic]
    /\ UNCHANGED << build, device, perfData, state, m_regs, m_stageInfo,
                    registers, uploader, hasher >>
    /\ UNCHANGED codecVars

\* ------------------------------------------------------- specification
Next ==
    \/ LateInit
    \/ \E t \in Threads : WriteShCommands(t)
    \/ \E t \in Threads : WriteContextCommands(t)

Spec == Init /\ [][Next]_vars

\* ------------------------------------- concurrent command-buffer recording
\* The same calls, taken one shared-memory access at a time, by threads that
\* each own their command stream and their local copy of the dynamic registers.
ConcConstructions ==
    { c \in Constructions : c.device.supportSpp = 1 /\ c.perfData = PerfDataMapped }
ConcBuilds == { b \in Builds : ~b.PAL_ENABLE_PRINTS_ASSERTS }
ConcRegisterVectors == { r \in RegisterVectors : r.rsrc3.has /\ r.chksum.has }
ConcUploaders == { u \in Uploaders : FailedAssert(u) = 0 /\ u.hsMainEntry.found }

InitConc ==
    /\ Init
    /\ build \in ConcBuilds
    /\ \E c \in ConcConstructions : device = c.device /\ perfData = c.perfData

LateInitConc == LateInitWith(ConcRegisterVectors, ConcUploaders)

\* Entry of WriteShCommands with the caller's stream and overrides.
BeginShCommands(t) ==
    /\ state = "Ready"
    /\ pc[t] \in {"idle", "shDone", "ctxDone"}
    /\ \E info \in StageInfos : hsStageInfo' = [hsStageInfo EXCEPT ![t] = info]
    /\ dynamic' = [dynamic EXCEPT ![t] = ZeroDynamic]
    /\ stream' = [stream EXCEPT ![t] = << >>]
    /\ pc' = [pc EXCEPT ![t] = "shRegs"]
    /\ UNCHANGED << build, device, perfData, state, m_regs, m_stageInfo,
                    registers, uploader, hasher >>
    /\ UNCHANGED codecVars

StepShRegs(t) ==
    /\ pc[t] = "shRegs"
    /\ stream' = [stream EXCEPT ![t] = @ \o ShRegWrites(m_regs, device)]
    /\ pc' = [pc EXCEPT ![t] = "copyDynamic"]
    /\ UNCHANGED << build, device, perfData, state, m_regs, m_stageInfo,
                    registers, uploader, hasher, hsStageInfo, dynamic >>
    /\ UNCHANGED codecVars

StepCopyDynamic(t) ==
    /\ pc[t] = "copyDynamic"
    /\ dynamic' = [dynamic EXCEPT ![t] = m_regs.dynamic]
    /\ pc' = [pc EXCEPT ![t] = "wavesPerSh"]
    /\ UNCHANGED << build, device, perfData, state, m_regs, m_stageInfo,
                    registers, uploader, hasher, hsStageInfo, stream >>
    /\ UNCHANGED codecVars

StepWavesPerSh(t) ==
    /\ pc[t] = "wavesPerSh"
    /\ dynamic' = [dynamic EXCEPT ![t] =
                       ApplyWavesPerSh(@, hsStageInfo[t], device, build)]
    /\ m_regs' = SnapshotAfterPatch(m_regs, dynamic'[t])
    /\ pc' = [pc EXCEPT ![t] = "cuEnableMask"]
    /\ UNCHANGED << build, device, perfData, state, m_stageInfo,
                    registers, uploader, hasher, hsStageInfo, stream >>
    /\ UNCHANGED codecVars

StepCuEnableMask(t) ==
    /\ pc[t] = "cuEnableMask"
    /\ dynamic' = [dynamic EXCEPT ![t] = ApplyCuEnableMask(@, hsStageInfo[t])]
    /\ m_regs' = SnapshotAfterPatch(m_regs, dynamic'[t])
    /\ pc' = [pc EXCEPT ![t] = "dynamicRegs"]
    /\ UNCHANGED << build, device, perfData, state, m_stageInfo,
                    registers, uploader, hasher, hsStageInfo, stream >>
    /\ UNCHANGED codecVars

StepDynamicRegs(t) ==
    /\ pc[t] = "dynamicRegs"
    /\ stream' = [stream EXCEPT ![t] =
                      @ \o DynamicRegWrites(dynamic[t], device)
                        \o PerfDataWrites(perfData)]
    /\ pc' = [pc EXCEPT ![t] = "shDone"]
    /\ UNCHANGED << build, device, perfData, state, m_regs, m_stageInfo,
                    registers, uploader, hasher, hsStageInfo, dynamic >>
    /\ UNCHANGED codecVars

NextConc ==
    \/ LateInitConc
    \/ \E t \in Threads : BeginShCommands(t)
    \/ \E t \in Threads : StepShRegs(t)
    \/ \E t \in Threads : StepCopyDynamic(t)
    \/ \E t \in Threads : StepWavesPerSh(t)
    \/ \E t \in Threads : StepCuEnableMask(t)
    \/ \E t \in Threads : StepDynamicRegs(t)
    \/ \E t \in Threads : WriteContextCommands(t)

SpecConc == InitConc /\ [][NextConc]_vars

\* ------------------------------------------------- metadata codec calls
\* No pipeline chunk is under construction.
ChunkIdle ==
    /\ build = CHOOSE b \in Builds : TRUE
    /\ device = (CHOOSE c \in Constructions : TRUE).device
    /\ perfData = (CHOOSE c \in Constructions : TRUE).perfData
    /\ hasher = (CHOOSE c \in Constructions : TRUE).hasher
    /\ state = "Uninitialized"
    /\ m_regs = ZeroRegs
    /\ m_stageInfo = InitStageInfo
    /\ registers = CHOOSE r \in RegisterVectors : TRUE
    /\ uploader = CHOOSE u \in Uploaders : TRUE
    /\ pc = [t \in Threads |-> "idle"]
    /\ hsStageInfo = [t \in Threads |-> NoStageInfo]
    /\ dynamic = [t \in Threads |-> ZeroDynamic]
    /\ stream = [t \in Threads |-> << >>]

\* Either a producer's blob is at hand, or a metadata instance to encode.
InitCodec ==
    /\ ChunkIdle
    /\ supportedMajor \in SupportedMajors
    /\ result = "NotRun"
    /\ registersOffset = [written |-> FALSE, val |-> 0]
    /\ \/ \E desc \in BlobDescriptions :
            /\ blob = [origin |-> "foreign", from |-> desc]
            /\ buffer = Build(desc)
            /\ metadata = EmptyMetadata
            /\ codecPc = "blob"
       \/ \E m \in Instances :
            /\ blob = [origin |-> "encoded", from |-> m]
            /\ buffer = << >>
            /\ metadata = m
            /\ codecPc = "instance"

\* Encode(metadata).
EncodeMetadata ==
    /\ codecPc = "instance"
    /\ buffer' = Encode(metadata)
    /\ metadata' = EmptyMetadata
    /\ codecPc' = "blob"
    /\ UNCHANGED << supportedMajor, blob, result, registersOffset >>
    /\ UNCHANGED chunkVars

\* DeserializePalCodeObjectMetadata(pReader, pMetadata, pRegistersOffset) on a
\* zero-initialised *pMetadata.
DeserializePalCodeObjectMetadata ==
    /\ codecPc = "blob"
    /\ \E want \in BOOLEAN :
         LET decoded == Decode(buffer, supportedMajor)
         IN  /\ result' = decoded.res
             /\ metadata' = decoded.md
             /\ registersOffset' =
                    PublishRegistersOffset(decoded.res, decoded.md, want,
                                           registersOffset)
    /\ codecPc' = "decoded"
    /\ UNCHANGED << supportedMajor, blob, buffer >>
    /\ UNCHANGED chunkVars

NextCodec ==
    \/ EncodeMetadata
    \/ DeserializePalCodeObjectMetadata

SpecCodec == InitCodec /\ [][NextCodec]_vars

\* ===================================================== checked properties
\* What LateInit produced, recomputed from the arguments it was given.
LateInitSnapshot == LateInitRegs(ZeroRegs, device, registers, uploader)
LateInitDescriptor == LateInitStageInfo(InitStageInfo, uploader)

RegsOf(s) == [i \in 1..Len(s) |-> s[i].reg]
Emits(t, reg) == \E i \in 1..Len(stream[t]) : stream[t][i].reg = reg
Emitted(t, reg) ==
    stream[t][CHOOSE i \in 1..Len(stream[t]) : stream[t][i].reg = reg].val

SnapshotWaveLimit == m_regs.dynamic.spiShaderPgmRsrc3Hs.WAVE_LIMIT
EmittedWaveLimit(t) == Emitted(t, "mmSPI_SHADER_PGM_RSRC3_HS").WAVE_LIMIT

\* C1: in every state of a Ready stage, whatever WriteShCommands calls were
\* made with whatever overrides, the stored snapshot m_regs and the stage
\* descriptor m_stageInfo equal what LateInit produced.
C1_SnapshotNeverMutated ==
    state = "Ready" =>
        /\ m_regs = LateInitSnapshot
        /\ m_stageInfo = LateInitDescriptor

\* A call whose overrides and fix-up changed the call-local copy has returned.
C1_Witness ==
    \E t \in Threads :
        /\ pc[t] = "shDone"
        /\ hsStageInfo[t].wavesPerSh > 0
        /\ hsStageInfo[t].cuEnableMask # 0
        /\ dynamic[t].spiShaderPgmRsrc3Hs # m_regs.dynamic.spiShaderPgmRsrc3Hs

\* C2 as stated: on Gfx9, when the snapshot's WAVE_LIMIT is 0, every
\* WriteShCommands call, whatever its overrides, emits RSRC3 with WAVE_LIMIT
\* equal to the maximum waves per SH, and not 0.
C2_Original ==
    \A t \in Threads :
        ( /\ pc[t] = "shDone"
          /\ IsGfx9(device.gfxLevel)
          /\ SnapshotWaveLimit = 0 )
        => /\ EmittedWaveLimit(t) = GetMaxWavesPerSh(device)
           /\ EmittedWaveLimit(t) # 0

\* C2 amended: on Gfx9 in a PAL_AMDGPU_BUILD build, when the snapshot's
\* WAVE_LIMIT is 0 and the call gives no wave-limit override (wavesPerSh = 0),
\* the emitted RSRC3 carries WAVE_LIMIT equal to the maximum waves per SH, and
\* not 0, for every cuEnableMask.
C2_Gfx9ZeroWaveLimitCompensated ==
    \A t \in Threads :
        ( /\ pc[t] = "shDone"
          /\ IsGfx9(device.gfxLevel)
          /\ build.PAL_AMDGPU_BUILD
          /\ hsStageInfo[t].wavesPerSh = 0
          /\ SnapshotWaveLimit = 0 )
        => /\ EmittedWaveLimit(t) = GetMaxWavesPerSh(device)
           /\ EmittedWaveLimit(t) # 0

C2_Witness ==
    \E t \in Threads :
        /\ pc[t] = "shDone"
        /\ IsGfx9(device.gfxLevel)
        /\ build.PAL_AMDGPU_BUILD
        /\ hsStageInfo[t].wavesPerSh = 0
        /\ hsStageInfo[t].cuEnableMask # 0
        /\ SnapshotWaveLimit = 0
        /\ EmittedWaveLimit(t) = GetMaxWavesPerSh(device)

\* C3 as stated: on a generation other than Gfx9, when the snapshot's
\* WAVE_LIMIT is 0, WriteShCommands emits RSRC3 with WAVE_LIMIT = 0.
C3_Original ==
    \A t \in Threads :
        ( /\ pc[t] = "shDone"
          /\ ~IsGfx9(device.gfxLevel)
          /\ SnapshotWaveLimit = 0 )
        => EmittedWaveLimit(t) = 0

\* C3 amended: on a generation other than Gfx9, when the snapshot's WAVE_LIMIT
\* is 0 and the call gives no wave-limit override (wavesPerSh = 0), the emitted
\* RSRC3 carries WAVE_LIMIT = 0: no defect compensation is applied.
C3_OtherGenerationsZeroUnchanged ==
    \A t \in Threads :
        ( /\ pc[t] = "shDone"
          /\ ~IsGfx9(device.gfxLevel)
          /\ hsStageInfo[t].wavesPerSh = 0
          /\ SnapshotWaveLimit = 0 )
        => EmittedWaveLimit(t) = 0

C3_Witness ==
    \E t \in Threads :
        /\ pc[t] = "shDone"
        /\ ~IsGfx9(device.gfxLevel)
        /\ build.PAL_AMDGPU_BUILD
        /\ hsStageInfo[t].wavesPerSh = 0
        /\ SnapshotWaveLimit = 0
        /\ EmittedWaveLimit(t) = 0

\* C4 as stated: once LateInit has resolved an entry point that is not aligned
\* to 256 bytes, in any build, the stage is not Ready and no WriteShCommands
\* call has emitted a program address.
C4_MisalignedEntryPointIsHardFailure ==
    ( /\ state # "Uninitialized"
      /\ uploader.hsMainEntry.found
      /\ ~IsPow2Aligned(uploader.hsMainEntry.gpuVirtAddr, PgmAlignment) )
    => /\ state # "Ready"
       /\ \A t \in Threads : ~(pc[t] = "shDone" /\ Emits(t, "mmSpiShaderPgmLoLs"))

\* The registers a WriteShCommands call can write, in the order of the code;
\* the internal-table user-data register sits between RSRC2 and the checksum.
ShRegisterOrder ==
    << "mmSpiShaderPgmLoLs", "mmSPI_SHADER_PGM_RSRC1_HS",
       "mmSPI_SHADER_PGM_RSRC2_HS", "mmSpiShaderUserDataHs0+ConstBufTblStartReg",
       "mmSPI_SHADER_PGM_CHKSUM_HS", "mmSPI_SHADER_PGM_RSRC3_HS",
       "mmSPI_SHADER_PGM_RSRC4_HS", PerfDataMapped.regOffset >>

IsWritten(reg) ==
    /\ (reg = "mmSPI_SHADER_PGM_CHKSUM_HS") => (device.supportSpp # 0)
    /\ (reg = "mmSPI_SHADER_PGM_RSRC4_HS") => IsGfx10Plus(device.gfxLevel)
    /\ (reg = PerfDataMapped.regOffset) => (perfData.regOffset = reg)

\* C5: every WriteShCommands call writes its registers in the one fixed order
\* program address, RSRC1, RSRC2, (internal table,) checksum if supported,
\* RSRC3, RSRC4 (Gfx10+), perf-data pointer if mapped: the registers of the
\* stream are that list without the registers the device or the perf-data
\* info leaves out, whatever the overrides and the snapshot's values.
C5_FixedWriteOrder ==
    \A t \in Threads :
        pc[t] = "shDone" => RegsOf(stream[t]) = SelectSeq(ShRegisterOrder, IsWritten)

\* A call with overrides that wrote all eight registers.
C5_Witness ==
    \E t \in Threads :
        /\ pc[t] = "shDone"
        /\ Len(stream[t]) = 8
        /\ hsStageInfo[t].wavesPerSh > 0
        /\ hsStageInfo[t].cuEnableMask # 0

\* C6: any two WriteShCommands calls on the same Ready instance wrote the
\* same registers in the same order, with equal values in every register
\* except the WAVE_LIMIT and CU_EN fields of RSRC3 and the CU_EN field of RSRC4.
C6_CallsDifferOnlyInOverriddenFields ==
    \A t, u \in Threads :
        (pc[t] = "shDone" /\ pc[u] = "shDone") =>
            /\ RegsOf(stream[t]) = RegsOf(stream[u])
            /\ \A i \in 1..Len(stream[t]) :
                 /\ stream[t][i].pkt = stream[u][i].pkt
                 /\ IF stream[t][i].reg \in {"mmSPI_SHADER_PGM_RSRC3_HS",
                                             "mmSPI_SHADER_PGM_RSRC4_HS"}
                    THEN stream[t][i].val.OTHER_BITS = stream[u][i].val.OTHER_BITS
                    ELSE stream[t][i].val = stream[u][i].val

\* Two calls with different overrides whose RSRC3 and RSRC4 values differ,
\* on a snapshot whose RSRC3 has bits outside the overridden fields.
C6_Witness ==
    \E t, u \in Threads :
        /\ pc[t] = "shDone" /\ pc[u] = "shDone"
        /\ hsStageInfo[t] # hsStageInfo[u]
        /\ Emits(t, "mmSPI_SHADER_PGM_RSRC4_HS")
        /\ Emitted(t, "mmSPI_SHADER_PGM_RSRC3_HS") # Emitted(u, "mmSPI_SHADER_PGM_RSRC3_HS")
        /\ Emitted(t, "mmSPI_SHADER_PGM_RSRC4_HS") # Emitted(u, "mmSPI_SHADER_PGM_RSRC4_HS")
        /\ Emitted(t, "mmSPI_SHADER_PGM_RSRC3_HS").OTHER_BITS # 0

\* The context registers as LateInit reads them from the RegisterVector.
ContextOf(regvec) ==
    [vgtHosMaxTessLevel |-> [u32All |-> regvec.maxTess],
     vgtHosMinTessLevel |-> [u32All |-> regvec.minTess]]

\* C7: when the entry point is not found, LateInit raises no error and the
\* stage is Ready, the code length and the program address keep their default
\* 0, and the other registers and the hash contribution are as usual.
C7_EntryPointNotFound ==
    (state # "Uninitialized" /\ ~uploader.hsMainEntry.found) =>
        /\ state = "Ready"
        /\ m_stageInfo.codeLength = 0
        /\ m_regs.sh.spiShaderPgmLoLs.MEM_BASE = 0
        /\ m_regs.sh.spiShaderPgmRsrc1Hs = [u32All |-> registers.rsrc1]
        /\ m_regs.sh.spiShaderPgmRsrc2Hs = [u32All |-> registers.rsrc2]
        /\ m_regs.sh.userDataInternalTable =
               [u32All |-> IF uploader.hsIntrlTbl.found
                           THEN uploader.hsIntrlTbl.gpuVirtAddr.lo ELSE 0]
        /\ m_regs.dynamic.spiShaderPgmRsrc3Hs.CU_EN = device.cuEnableMask
        /\ m_regs.dynamic.spiShaderPgmRsrc3Hs.WAVE_LIMIT =
               (IF registers.rsrc3.has THEN registers.rsrc3.val.WAVE_LIMIT ELSE 0)
        /\ m_regs.context = ContextOf(registers)
        /\ Len(hasher) > 0 /\ hasher[Len(hasher)] = ContextOf(registers)

C7_Witness ==
    /\ state = "Ready"
    /\ ~uploader.hsMainEntry.found
    /\ build.PAL_ENABLE_PRINTS_ASSERTS
    /\ uploader.hsIntrlTbl.found
    /\ registers.rsrc3.has

\* C8: what a LateInit feeds to the hasher is a function of the context
\* registers of its RegisterVector alone: after a complete LateInit the hasher
\* holds what it held before followed by exactly (VGT_HOS_MAX_TESS_LEVEL,
\* VGT_HOS_MIN_TESS_LEVEL) as read from the RegisterVector, whatever the
\* symbols, the device's CU masks and the earlier contents of the hasher; so
\* two LateInit calls given equal register contents feed equal data.
C8_HashContributionIsContextRegisters ==
    state = "Ready" =>
        \E prior \in PriorHashes : hasher = Append(prior, ContextOf(registers))

\* LateInit fed a hasher that already held data, with symbols found.
C8_Witness ==
    /\ state = "Ready"
    /\ Len(hasher) = 2
    /\ uploader.hsMainEntry.found
    /\ uploader.hsIntrlTbl.found
    /\ m_regs.dynamic.spiShaderPgmRsrc4Hs.CU_EN # 0

\* C10: every WriteContextCommands call on a Ready instance emits
\* VGT_HOS_MAX_TESS_LEVEL and VGT_HOS_MIN_TESS_LEVEL with the values LateInit
\* read from the RegisterVector, whatever WriteShCommands calls were made.
C10_ContextCommands ==
    \A t \in Threads :
        pc[t] = "ctxDone" =>
            stream[t] =
                << [pkt |-> "SET_CONTEXT_REG", reg |-> "mmVGT_HOS_MAX_TESS_LEVEL",
                    val |-> [u32All |-> registers.maxTess]],
                   [pkt |-> "SET_CONTEXT_REG", reg |-> "mmVGT_HOS_MIN_TESS_LEVEL",
                    val |-> [u32All |-> registers.minTess]] >>

\* A WriteContextCommands call next to a WriteShCommands call with overrides.
C10_Witness ==
    \E t, u \in Threads :
        /\ pc[t] = "ctxDone"
        /\ pc[u] = "shDone"
        /\ hsStageInfo[u].wavesPerSh > 0
        /\ hsStageInfo[u].cuEnableMask # 0

\* C9: with WriteShCommands and WriteContextCommands calls of several threads
\* interleaved step by step on one Ready instance, every finished call has
\* emitted exactly what it emits when run alone on the snapshot LateInit
\* produced, and the shared snapshot still is that snapshot.
C9_ConcurrentCallsAsIfAlone ==
    /\ state = "Ready" => m_regs = LateInitSnapshot
    /\ \A t \in Threads :
         /\ pc[t] = "shDone" =>
                stream[t] = ShCommands(LateInitSnapshot, hsStageInfo[t],
                                       device, build, perfData)
         /\ pc[t] = "ctxDone" => stream[t] = ContextCommands(LateInitSnapshot)

\* A call finished while another call with other overrides had patched its
\* local copy and not yet emitted it.
C9_Witness ==
    \E t, u \in Threads :
        /\ pc[t] = "shDone"
        /\ pc[u] = "dynamicRegs"
        /\ hsStageInfo[t].cuEnableMask = 0
        /\ hsStageInfo[u].cuEnableMask # 0
        /\ hsStageInfo[u].wavesPerSh > 0
        /\ dynamic[u] # dynamic[t]

\* ------------------------------------------------- metadata codec claims
Decoded == codecPc = "decoded"
DecodedBlob == Decoded /\ blob.origin = "foreign"
CarriesUnknownKeys(desc) ==
    /\ desc.futureRoot
    /\ \E i \in 1..Len(desc.pipe) : desc.pipe[i] \in {FutureKey, FutureNestedKey}

DecodedRoundTrip == Decoded /\ blob.origin = "encoded"
EagerFields == {"userDataLimit", "spillThreshold"}
LazyFields == {"shaderFunctions", "registers"}
KeyOf(field) ==
    IF field = "shaderFunctions" THEN ShaderFunctionsKey
    ELSE IF field = "registers" THEN RegistersKey
    ELSE IF field = "userDataLimit" THEN UserDataLimitKey
    ELSE SpillThresholdKey

\* The token at a byte offset of the buffer.
TokenAt(offset) == buffer[offset + 1]

\* C12 as stated: for every metadata instance m built only from known fields,
\* Decode(Encode(m)) succeeds, every field present in m is present with a
\* value equal to m's, and every field absent in m is absent.
C12_Original ==
    DecodedRoundTrip =>
        LET m == blob.from
        IN  /\ result = "Success"
            /\ metadata.hasEntry.version = m.hasEntry.version
            /\ m.hasEntry.version => metadata.version = m.version
            /\ \A f \in EagerFields \cup LazyFields :
                 /\ metadata.pipeline.hasEntry[f] = m.pipeline.hasEntry[f]
                 /\ m.pipeline.hasEntry[f] => metadata.pipeline[f] = m.pipeline[f]

\* C12: for every metadata instance m built only from known fields whose
\* version is present with a major version the decoder supports,
\* Decode(Encode(m)) succeeds with m's version; every field has its presence
\* bit set exactly when it is set in m; a present eagerly decoded field has
\* m's value; a present lazy-reference field holds the offset of its
\* sub-structure in the encoded buffer, the map that follows its key.
C12_RoundTrip ==
    DecodedRoundTrip =>
        LET m == blob.from
        IN  m.hasEntry.version /\ m.version[1] <= supportedMajor =>
              /\ result = "Success"
              /\ metadata.hasEntry.version
              /\ metadata.version = m.version
              /\ \A f \in EagerFields \cup LazyFields :
                   metadata.pipeline.hasEntry[f] = m.pipeline.hasEntry[f]
              /\ \A f \in EagerFields :
                   m.pipeline.hasEntry[f] => metadata.pipeline[f] = m.pipeline[f]
              /\ \A f \in LazyFields :
                   m.pipeline.hasEntry[f] =>
                     /\ metadata.pipeline[f] \in 1..(Len(buffer) - 1)
                     /\ TokenAt(metadata.pipeline[f]).k = "map"
                     /\ TokenAt(metadata.pipeline[f] - 1) = Tok("str", KeyOf(f))

C12_Witness ==
    /\ DecodedRoundTrip
    /\ result = "Success"
    /\ blob.from.pipeline.hasEntry.registers
    /\ blob.from.pipeline.hasEntry.userDataLimit
    /\ ~blob.from.pipeline.hasEntry.spillThreshold
    /\ metadata.pipeline.hasEntry.registers
    /\ metadata.pipeline.registers # blob.from.pipeline.registers
    /\ metadata.pipeline.userDataLimit = 16

\* The key of a field is one of the keys of the blob's pipeline map.
KeyFound(desc, field) ==
    \E i \in 1..Len(desc.pipe) : desc.pipe[i] = KeyOf(field)

\* C13: after a successful decode, every optional field whose key was absent
\* from the blob has its presence bit clear and holds its default value (so a
\* presence bit is set only if the key was found), and the registers offset
\* handed to the caller is the invalid offset when the registers entry is
\* absent; a blob with only the two required root keys and an empty pipeline
\* decodes without error, with the version set and every pipeline-field
\* presence bit clear.
C13_PresenceDiscipline ==
    DecodedBlob =>
        LET desc == blob.from
        IN  /\ result = "Success" =>
                 /\ \A f \in EagerFields \cup LazyFields :
                      ~KeyFound(desc, f) =>
                          /\ ~metadata.pipeline.hasEntry[f]
                          /\ metadata.pipeline[f] = EmptyPipelineMetadata[f]
                 /\ registersOffset.written /\ ~KeyFound(desc, "registers")
                      => registersOffset.val = InvalidRegistersOffset
            /\ WellFormed(desc) /\ ~desc.futureRoot /\ desc.pipe = << >>
                /\ desc.version[1] <= supportedMajor =>
                 /\ result = "Success"
                 /\ metadata.hasEntry.version
                 /\ metadata.version = desc.version
                 /\ metadata.pipeline = EmptyPipelineMetadata

C13_Witness ==
    /\ DecodedBlob
    /\ result = "Success"
    /\ ~blob.from.futureRoot
    /\ blob.from.pipe = << >>
    /\ metadata.hasEntry.version
    /\ metadata.pipeline = EmptyPipelineMetadata
    /\ registersOffset.written

DecodeErrors ==
    {"MalformedStructure", "Truncated", "TypeMismatch", "VersionUnsupported"}

\* C14: decoding a blob that has no pipelines key fails with
\* MalformedStructure; a decode returns Success or one of the four typed
\* errors, a value of the wrong wire type giving TypeMismatch and a buffer
\* that ends early giving Truncated; and unless the result is Success the
\* registers offset is not handed to the caller.
C14_ErrorsAreReported ==
    Decoded =>
        /\ result \in DecodeErrors \cup {"Success"}
        /\ result # "Success" => ~registersOffset.written
        /\ blob.origin = "foreign" =>
             LET desc == blob.from
             IN  /\ desc.hasVersion /\ ~desc.hasPipelines /\ desc.defect = "none"
                     => result = "MalformedStructure"
                 /\ desc.hasVersion /\ desc.defect = "type"
                     => result = "TypeMismatch"
                 /\ CutOf(desc.defect) > 0 => result = "Truncated"

C14_Witness ==
    /\ DecodedBlob
    /\ blob.from.hasVersion
    /\ ~blob.from.hasPipelines
    /\ blob.from.defect = "none"
    /\ blob.from.version[1] > supportedMajor
    /\ result = "MalformedStructure"
    /\ metadata.hasEntry.version
    /\ ~registersOffset.written

\* C15: after every decode of a buffer of length L, and so after every
\* successful one, whenever the presence bit of a lazy-reference offset
\* (shaderFunctions or registers) is set, the stored offset o satisfies
\* 0 <= o < L and a sub-structure starts at o.
C15_OffsetSafety ==
    Decoded =>
        \A f \in LazyFields :
            metadata.pipeline.hasEntry[f] =>
                /\ 0 <= metadata.pipeline[f]
                /\ metadata.pipeline[f] < Len(buffer)
                /\ TokenAt(metadata.pipeline[f]).k = "map"

C15_Witness ==
    /\ DecodedBlob
    /\ result = "Success"
    /\ metadata.pipeline.hasEntry.shaderFunctions
    /\ metadata.pipeline.shaderFunctions = Len(buffer) - 1

\* --------------------------------------------------------- override claims
SnapshotCuEn == m_regs.dynamic.spiShaderPgmRsrc3Hs.CU_EN
EmittedCuEn(t) == Emitted(t, "mmSPI_SHADER_PGM_RSRC3_HS").CU_EN
Compensated(t) ==
    build.PAL_AMDGPU_BUILD /\ IsGfx9(device.gfxLevel) /\ SnapshotWaveLimit = 0

\* C16 as stated: a wave-limit override wavesPerSh > 0 takes precedence on
\* every generation, the emitted WAVE_LIMIT equals wavesPerSh; with
\* wavesPerSh = 0 the emitted WAVE_LIMIT is the snapshot's value, or the
\* maximum waves per SH on Gfx9 when the snapshot's value is 0.
C16_Original ==
    \A t \in Threads :
        pc[t] = "shDone" =>
            IF hsStageInfo[t].wavesPerSh > 0
            THEN EmittedWaveLimit(t) = hsStageInfo[t].wavesPerSh
            ELSE \/ EmittedWaveLimit(t) = SnapshotWaveLimit
                 \/ /\ IsGfx9(device.gfxLevel)
                    /\ SnapshotWaveLimit = 0
                    /\ EmittedWaveLimit(t) = GetMaxWavesPerSh(device)

\* C16: a wave-limit override wavesPerSh > 0 takes precedence on every
\* generation: the emitted WAVE_LIMIT is wavesPerSh cut to the width of the
\* WAVE_LIMIT field, so it equals wavesPerSh when wavesPerSh fits the field,
\* whatever the snapshot's WAVE_LIMIT and with no compensation; with
\* wavesPerSh = 0 the emitted WAVE_LIMIT is the maximum waves per SH on Gfx9
\* in a PAL_AMDGPU_BUILD build when the snapshot's value is 0, and the
\* snapshot's value otherwise.
C16_OverrideTakesPrecedence ==
    \A t \in Threads :
        pc[t] = "shDone" =>
            /\ hsStageInfo[t].wavesPerSh > 0 =>
                 /\ EmittedWaveLimit(t) = hsStageInfo[t].wavesPerSh % (2 ^ WAVE_LIMIT_BITS)
                 /\ hsStageInfo[t].wavesPerSh < 2 ^ WAVE_LIMIT_BITS
                      => EmittedWaveLimit(t) = hsStageInfo[t].wavesPerSh
            /\ hsStageInfo[t].wavesPerSh = 0 /\ Compensated(t)
                 => EmittedWaveLimit(t) = GetMaxWavesPerSh(device)
            /\ hsStageInfo[t].wavesPerSh = 0 /\ ~Compensated(t)
                 => EmittedWaveLimit(t) = SnapshotWaveLimit

\* An override on Gfx9 over a snapshot value of 0, which without the override
\* would have been compensated.
C16_Witness ==
    \E t \in Threads :
        /\ pc[t] = "shDone"
        /\ Compensated(t)
        /\ hsStageInfo[t].wavesPerSh > 0
        /\ EmittedWaveLimit(t) = hsStageInfo[t].wavesPerSh
        /\ EmittedWaveLimit(t) # GetMaxWavesPerSh(device)

\* C17: for every Ready instance the snapshot's RSRC3 CU_EN is the device's
\* CU enable mask, whatever the pipeline binary holds for the register; the
\* CU_EN emitted by a WriteShCommands call is a bitwise subset of it: the
\* snapshot's CU_EN AND the mask when cuEnableMask is non-zero, the snapshot's
\* CU_EN itself when cuEnableMask is 0.
C17_CuMaskOnlyNarrows ==
    /\ state = "Ready" => SnapshotCuEn = device.cuEnableMask
    /\ \A t \in Threads :
         pc[t] = "shDone" =>
             /\ BitAnd(EmittedCuEn(t), SnapshotCuEn) = EmittedCuEn(t)
             /\ hsStageInfo[t].cuEnableMask # 0
                  => EmittedCuEn(t) = BitAnd(SnapshotCuEn, hsStageInfo[t].cuEnableMask)
             /\ hsStageInfo[t].cuEnableMask = 0 => EmittedCuEn(t) = SnapshotCuEn

\* A mask that narrows, on a stage whose binary carries another CU_EN.
C17_Witness ==
    \E t \in Threads :
        /\ pc[t] = "shDone"
        /\ registers.rsrc3.has
        /\ registers.rsrc3.val.CU_EN # device.cuEnableMask
        /\ hsStageInfo[t].cuEnableMask # 0
        /\ EmittedCuEn(t) # SnapshotCuEn
        /\ EmittedCuEn(t) # 0

\* The registers a call writes on a device with a perf-data allocation.
WrittenRegisters(dev, perf) ==
    { "mmSpiShaderPgmLoLs", "mmSPI_SHADER_PGM_RSRC1_HS", "mmSPI_SHADER_PGM_RSRC2_HS",
      "mmSpiShaderUserDataHs0+ConstBufTblStartReg", "mmSPI_SHADER_PGM_RSRC3_HS" }
    \cup (IF dev.supportSpp # 0 THEN {"mmSPI_SHADER_PGM_CHKSUM_HS"} ELSE {})
    \cup (IF IsGfx10Plus(dev.gfxLevel) THEN {"mmSPI_SHADER_PGM_RSRC4_HS"} ELSE {})
    \cup (IF perf.regOffset # PerfDataNotMapped.regOffset THEN {perf.regOffset} ELSE {})

\* C18: the set of registers a WriteShCommands call writes is fixed by the
\* device and the perf-data info, whatever the overrides and the snapshot: the
\* checksum register is emitted iff supportSpp and the snapshot holds the
\* binary's checksum only then; RSRC4 is emitted iff the generation is Gfx10+
\* and its CU_EN is set by LateInit only then, so that before Gfx10 no RSRC4
\* write is emitted even with a CU mask override; the perf-data pointer is
\* emitted iff its register offset is mapped.
C18_WrittenRegistersFixedByDevice ==
    /\ state = "Ready" =>
         /\ m_regs.sh.spiShaderPgmChksumHs.u32All =
                (IF device.supportSpp # 0 /\ registers.chksum.has
                 THEN registers.chksum.val.u32All ELSE 0)
         /\ m_regs.dynamic.spiShaderPgmRsrc4Hs.CU_EN =
                (IF IsGfx10Plus(device.gfxLevel) THEN device.cuEnableMaskHi ELSE 0)
    /\ \A t \in Threads :
         pc[t] = "shDone" =>
             /\ { stream[t][i].reg : i \in 1..Len(stream[t]) }
                    = WrittenRegisters(device, perfData)
             /\ Emits(t, "mmSPI_SHADER_PGM_CHKSUM_HS") <=> device.supportSpp # 0
             /\ Emits(t, "mmSPI_SHADER_PGM_RSRC4_HS") <=> IsGfx10Plus(device.gfxLevel)
             /\ Emits(t, PerfDataMapped.regOffset)
                    <=> perfData.regOffset # PerfDataNotMapped.regOffset

\* Before Gfx10, without checksum support, a call with a CU mask override over
\* a binary that carries a checksum: neither register is written.
C18_Witness ==
    \E t \in Threads :
        /\ pc[t] = "shDone"
        /\ ~IsGfx10Plus(device.gfxLevel)
        /\ device.supportSpp = 0
        /\ registers.chksum.has
        /\ hsStageInfo[t].cuEnableMask # 0
        /\ dynamic[t].spiShaderPgmRsrc3Hs.CU_EN # SnapshotCuEn
        /\ ~Emits(t, "mmSPI_SHADER_PGM_RSRC4_HS")
        /\ ~Emits(t, "mmSPI_SHADER_PGM_CHKSUM_HS")
        /\ Emits(t, PerfDataMapped.regOffset)

====
